---- MODULE Spec2Model ----
(***************************************************************************)
(* Model of the local authentication and configuration code of the MCP     *)
(* server: the dashboard login flow with its loopback callback server      *)
(* (src/src/utils/oauth-flow.js and its earlier revision,                  *)
(* src/unnamed/part_025), the global config file (src/src/utils/           *)
(* global-config.js and its earlier revision, src/unnamed/part_026) and    *)
(* the credential checks of the SDK and the review tool.                   *)
(*                                                                         *)
(* The JavaScript runs on one event loop.  One action of the model is one  *)
(* callback of the loop together with the process.nextTick callbacks it    *)
(* queues; the continuation of an async function after an await is an      *)
(* action of its own, and no I/O callback is taken while such a            *)
(* continuation is ready (promise jobs run before the loop goes on).       *)
(***************************************************************************)
EXTENDS Integers, Sequences, FiniteSets, TLC

\* ------------------------------------------------------------------ bounds
MaxRequests == 2      \* HTTP requests the callback server handles in a run
MaxEnsureCalls == 2   \* ensureGlobalConfig() calls in a run
MaxSaveCalls == 2     \* saveGlobalApiKey() calls in a run of the config specification
MaxNetCalls == 2      \* requests sent to the Management API in a run
MaxLocalOps == 2      \* operations on the project config file in a run
MaxCleanupCalls == 2  \* calls of the cleanup function createTempZip returned

\* ------------------------------------------------------- program constants
BasePort == 8000
LastPort == 8010
MinAppNameLen == 3
MaxAppNameLen == 20

Ports == BasePort..LastPort

Absent == "<absent>"          \* searchParams.get() gave null / key not in the document
Keys == {"K1", "K2"}          \* non-empty credentials
ErrorStrings == {"access_denied"}
UUIDPool == <<"D1", "D2", "D3", "D4">>   \* successive results of randomUUID()
DeviceIDs == {UUIDPool[i] : i \in 1..Len(UUIDPool)}

CallbackPath == "/mcp/auth/callback"
Paths == {CallbackPath, "/favicon.ico"}

DefaultMode == "0644"         \* mode of a file created by writeFileSync (0666 less the umask)
OwnerOnly == "0600"

\* --------------------------------------------------------------- variables
VARIABLES
  rev,            \* "current": oauth-flow.js + global-config.js; "earlier": part_025 + part_026
  listenIdCheck,  \* whether the runtime drops a listen() overtaken by a close()
  occupied,       \* ports of 8000..8010 another process holds
  envApiKey,      \* process.env.API_KEY
  \* startCallbackServer
  port,           \* the closure variable `let port`
  errListeners,   \* 'error' listeners registered on the server
  listenCbs,      \* once('listening') callbacks registered and not yet run
  pendingListens, \* ports of the server.listen() calls whose host lookup is under way
  handle,         \* port the server socket is bound to, 0 when it has none
  conn,           \* a keep-alive connection accepted while listening is open
  attempts,       \* ports server.listen() was called with, in order
  binds,          \* ports a bind was attempted on, in order
  startPromise,   \* promise returned by startCallbackServer
  tokenPromise,   \* the pending session
  \* startDashboardAuthFlow
  flowpc, urlPort, opened, openState, racePromise, timer, firstSettle,
  flowResult, flowCloses, resp, lastReq, nreq, lateEvents,
  \* global config file and writeGlobalConfig
  dirExists, gfile, gmode, tmpfile, tmpmode,
  wpc, wcaller, wdata, wmerged, wprior, wresult, wstep, wchmodFailed, nwrites,
  gchmodOk,       \* whether chmodSync succeeded in the call that put the current file in place
  usedUUIDs, nensure, nsave, ensureResult,
  \* credential checks
  credOp, credResult, netCalls,
  \* project config file (.endgame) and the operations on it
  lrev,           \* "sdk": setup of src/sdk.js; "local-config": createLocalConfig of part_027
  lfile,          \* content of <appSourcePath>/.endgame
  lhist,          \* the calls made so far: operation, arguments, outcome, file before and after
  \* zipDirectory, createTempZip and deployApp
  zmode,          \* who builds the archive: createTempZip alone, deployApp of part_008 or of src/sdk.js
  ztree,          \* files under srcDir
  zinject,        \* destination names of additionalFiles
  zpc,            \* position in zipDirectory / createTempZip / deployApp
  zopen,          \* the open() of fs.createWriteStream(outPath): none, pending, opened, failed
  zfile,          \* the archive file at outPath: absent, partial, complete
  zfiles,         \* result of collectFiles
  zentries,       \* entries added to the archive
  zerr,           \* error caught by zipDirectory
  zdestroyed,     \* outStream.destroy() was called
  zcreated,       \* zipDirectory completed the archive
  zuploaded,      \* the upload attempt: none, ok, failed
  zcleanups,      \* cleanup calls made by the caller
  zrmFailed,      \* the last removal attempted by cleanupTempZip failed
  zcleanupEarly,  \* deployApp invoked cleanup before the upload attempt had finished
  zresult,        \* how the caller's call ended: none, returned, thrown
  \* one call of a function that reads a config file
  rin,            \* the function called, the file it finds and the runtime it runs on
  rresult,        \* what the call returned or threw
  \* two processes writing the global config file at the same time
  cw              \* per process: position in its call, data, merged document, outcome

serverVars == <<port, errListeners, listenCbs, pendingListens, handle,
                conn, attempts, binds, startPromise, tokenPromise>>
flowVars == <<flowpc, urlPort, opened, openState, racePromise, timer, firstSettle,
              flowResult, flowCloses, resp, lastReq, nreq, lateEvents>>
fsVars == <<dirExists, gfile, gmode, tmpfile, tmpmode>>
writeVars == <<wpc, wcaller, wdata, wmerged, wprior, wresult, wstep, wchmodFailed,
               nwrites, gchmodOk>>
ensureVars == <<usedUUIDs, nensure, nsave, ensureResult>>
credVars == <<credOp, credResult, netCalls>>
envVars == <<rev, listenIdCheck, occupied, envApiKey>>
localVars == <<lrev, lfile, lhist>>
zipVars == <<zmode, ztree, zinject, zpc, zopen, zfile, zfiles, zentries, zerr, zdestroyed,
             zcreated, zuploaded, zcleanups, zrmFailed, zcleanupEarly, zresult>>
readVars == <<rin, rresult>>
raceVars == <<cw>>
projVars == <<localVars, zipVars, readVars, raceVars>>
authVars == <<envVars, serverVars, flowVars, fsVars, writeVars, ensureVars, credVars>>
vars == <<authVars, projVars>>

\* ----------------------------------------------------------------- values
Falsy(x) == x \in {Absent, ""}

NoVal == [kind |-> "none", detail |-> ""]
KeyVal(k) == [kind |-> "key", detail |-> k]
Err(kind, detail) == [kind |-> kind, detail |-> detail]

ErrNoPorts == "No available ports for authentication callback"
ErrTimeout == "Authentication timeout after 5 minutes"
ErrNoKey == "No API key received"
ErrAuth == "Authentication error"
ErrInvalidJSON == "Invalid JSON in the global config file"
ErrWrite == "Failed to write the global config file"
ErrOpen == "open failed"
ErrListen == "EACCES"
ErrMissingApiKey == "MISSING_API_KEY"
ErrApiKeyNotFound == "API_KEY not found"

PendingPromise == [state |-> "pending", val |-> NoVal]

\* A promise settles once: resolve and reject are ignored afterwards.
SettleLast(p, st, v) == [state |-> st, val |-> v]
Settle(p, st, v) == IF p.state = "pending" THEN [state |-> st, val |-> v] ELSE p

\* Promise.race([tokenPromise, timeout]) follows tokenPromise when that settles.
Follow(race, tok) ==
  IF race.state = "pending" /\ tok.state # "pending" THEN tok ELSE race

\* ------------------------------------------------------------ config file
NoFile == [kind |-> "absent", apiKey |-> Absent, deviceID |-> Absent]
BadFile == [kind |-> "invalid", apiKey |-> Absent, deviceID |-> Absent]
PartialFile == [kind |-> "partial", apiKey |-> Absent, deviceID |-> Absent]
Doc(k, d) == [kind |-> "doc", apiKey |-> k, deviceID |-> d]
EmptyDoc == Doc(Absent, Absent)

\* readGlobalConfig / getGlobalConfig: null when absent, throws on bad JSON.
\* A file cut short by a failed write does not parse either.
readGlobalConfig(f) ==
  IF f.kind = "absent" THEN [ok |-> TRUE, doc |-> NoFile]
  ELSE IF f.kind \in {"invalid", "partial"} THEN [ok |-> FALSE, doc |-> NoFile]
  ELSE [ok |-> TRUE, doc |-> f]

\* { ...existingData, ...data }
MergeDropExisting(existing, data) == data
MergeKeepExisting(existing, data) ==
  Doc(IF existing.apiKey # Absent THEN existing.apiKey ELSE data.apiKey,
      IF existing.deviceID # Absent THEN existing.deviceID ELSE data.deviceID)
Merge(existing, data) ==
  Doc(IF data.apiKey # Absent THEN data.apiKey ELSE existing.apiKey,
      IF data.deviceID # Absent THEN data.deviceID ELSE existing.deviceID)

\* readGlobalConfig() || {}
OrEmpty(r) == IF r.doc.kind = "doc" THEN r.doc ELSE EmptyDoc

\* config?.apiKey || null, and null when reading throws
getGlobalApiKey(f) ==
  LET r == readGlobalConfig(f) IN
  IF ~r.ok THEN Absent
  ELSE IF r.doc.kind # "doc" \/ Falsy(r.doc.apiKey) THEN Absent
  ELSE r.doc.apiKey

\* ---------------------------------------------------- startCallbackServer
StartPending == [state |-> "pending", port |-> 0, err |-> ""]

\* resolve({ server, port, tokenPromise }) and reject(err) of the outer promise
StartResolve(p, prt) ==
  IF p.state = "pending" THEN [state |-> "resolved", port |-> prt, err |-> ""] ELSE p
StartReject(p, e) ==
  IF p.state = "pending" THEN [state |-> "rejected", port |-> 0, err |-> e] ELSE p

\* The locals of startCallbackServer and the server's listener lists, as one record.
ServerState ==
  [port |-> port, errListeners |-> errListeners, listenCbs |-> listenCbs,
   pendingListens |-> pendingListens, attempts |-> attempts,
   startPromise |-> startPromise]

\* tryPort(): server.listen(port, 'localhost', cb) registers cb with once('listening')
\* and starts the host lookup; server.on('error', ...) adds one more listener.
tryPort(s) ==
  [s EXCEPT !.listenCbs = @ + 1,
            !.pendingListens = Append(@, s.port),
            !.attempts = Append(@, s.port),
            !.errListeners = @ + 1]

\* server.close() on a server without a socket.  A runtime that numbers its listen()
\* calls drops the lookups of the calls made before the close() when they complete;
\* they are taken out here.  Other runtimes let them go on.
closeUnbound(s) == IF listenIdCheck THEN [s EXCEPT !.pendingListens = <<>>] ELSE s

\* One run of the 'error' listener of tryPort.
ErrorListenerNoBound(s, code) ==
  IF code = "EADDRINUSE"
  THEN tryPort(closeUnbound([s EXCEPT !.port = @ + 1]))
  ELSE [s EXCEPT !.startPromise = StartReject(@, code)]
ErrorListener(s, code) ==
  IF code = "EADDRINUSE"
  THEN LET s1 == [s EXCEPT !.port = @ + 1] IN
       IF s1.port > LastPort
       THEN [s1 EXCEPT !.startPromise = StartReject(@, ErrNoPorts)]
       ELSE tryPort(closeUnbound(s1))
  ELSE [s EXCEPT !.startPromise = StartReject(@, code)]

\* server.emit('error', err): the n listeners registered when the event is emitted
\* run one after the other; listeners added meanwhile wait for the next event.
RECURSIVE EmitError(_, _, _)
EmitError(n, s, code) ==
  IF n = 0 THEN s ELSE EmitError(n - 1, ErrorListener(s, code), code)

\* server.emit('listening'): every once('listening') callback runs
\* resolve({ server, port, tokenPromise }) with the value `port` has by then.
EmitListening(s) ==
  IF s.listenCbs = 0 THEN s
  ELSE [s EXCEPT !.listenCbs = 0, !.startPromise = StartResolve(@, s.port)]

SetServerState(s) ==
  /\ port' = s.port
  /\ errListeners' = s.errListeners
  /\ listenCbs' = s.listenCbs
  /\ pendingListens' = s.pendingListens
  /\ attempts' = s.attempts
  /\ startPromise' = s.startPromise

\* No continuation of the flow is ready to run and no synchronous call is under way:
\* the event loop may take the next I/O callback.
LoopIdle ==
  /\ ~(flowpc = "awaitServer" /\ startPromise.state # "pending")
  /\ ~(flowpc = "racing" /\ racePromise.state # "pending")
  /\ wpc = "idle"

\* startDashboardAuthFlow() up to `await startCallbackServer()`.
StartFlow ==
  /\ flowpc = "idle"
  /\ wpc = "idle"
  /\ flowpc' = "awaitServer"
  /\ SetServerState(tryPort([ServerState EXCEPT !.port = BasePort]))
  /\ UNCHANGED <<handle, conn, binds, tokenPromise>>
  /\ UNCHANGED <<urlPort, opened, openState, racePromise, timer, firstSettle,
                 flowResult, flowCloses, resp, lastReq, nreq, lateEvents>>
  /\ UNCHANGED <<projVars, envVars, fsVars, writeVars, ensureVars, credVars>>

\* The host lookup of the oldest listen() call completes (doListen in the runtime);
\* lookups of the same name complete in the order they were started.
DoListen ==
  /\ pendingListens # <<>>
  /\ LoopIdle
  /\ LET l == [p |-> Head(pendingListens)]
         s0 == [ServerState EXCEPT !.pendingListens = Tail(@)] IN
     IF handle # 0
     THEN \* the server already has a socket: it is listened on again
          /\ SetServerState(EmitListening(s0))
          /\ UNCHANGED <<handle, binds>>
     ELSE IF l.p \in occupied
     THEN /\ binds' = Append(binds, l.p)
          /\ handle' = 0
          /\ SetServerState(EmitError(s0.errListeners, s0, "EADDRINUSE"))
     ELSE \/ /\ binds' = Append(binds, l.p)
             /\ handle' = l.p
             /\ SetServerState(EmitListening(s0))
          \/ /\ binds' = Append(binds, l.p)
             /\ handle' = 0
             /\ SetServerState(EmitError(s0.errListeners, s0, ErrListen))
  /\ UNCHANGED <<conn, tokenPromise>>
  /\ UNCHANGED <<projVars, envVars, flowVars, fsVars, writeVars, ensureVars, credVars>>

\* ------------------------------------------------- startDashboardAuthFlow
\* server.close() in the finally block
FlowCloseSkipped == UNCHANGED <<handle, flowCloses>>
FlowClose ==
  /\ handle' = 0
  /\ flowCloses' = flowCloses + 1

Returned(k) == [kind |-> "returned", val |-> KeyVal(k)]
Thrown(e) == [kind |-> "thrown", val |-> e]
NoResult == [kind |-> "none", val |-> NoVal]

\* Promise.race([tokenPromise, new Promise(... setTimeout(reject, 300000))])
NewRace(tok) == Follow(PendingPromise, tok)

\* The continuation after `await startCallbackServer()`: a rejection leaves the
\* function before the try block; otherwise the login URL is built and open() called.
\* The current revision does not wait for open() and goes on to the race.
FlowAfterStart ==
  /\ flowpc = "awaitServer"
  /\ startPromise.state # "pending"
  /\ IF startPromise.state = "rejected"
     THEN /\ flowpc' = "done"
          /\ flowResult' = Thrown(Err(startPromise.err, ""))
          /\ UNCHANGED <<urlPort, opened, openState, racePromise, timer>>
     ELSE /\ urlPort' = startPromise.port
          /\ opened' = TRUE
          /\ openState' = "pending"
          /\ UNCHANGED flowResult
          /\ IF rev = "current"
             THEN /\ racePromise' = NewRace(tokenPromise)
                  /\ timer' = "armed"
                  /\ flowpc' = "racing"
             ELSE /\ flowpc' = "opening"
                  /\ UNCHANGED <<racePromise, timer>>
  /\ UNCHANGED <<firstSettle, flowCloses, resp, lastReq, nreq, lateEvents>>
  /\ UNCHANGED <<projVars, envVars, serverVars, fsVars, writeVars, ensureVars, credVars>>

\* open(authUrl) settles.  Current revision: a failure is caught and logged.
\* Earlier revision: the flow awaits it inside the try block.
OpenDone(ok) ==
  /\ openState = "pending"
  /\ LoopIdle
  /\ pendingListens = <<>>
  /\ openState' = IF ok THEN "ok" ELSE "failed"
  /\ IF flowpc = "opening"
     THEN IF ok
          THEN /\ racePromise' = NewRace(tokenPromise)
               /\ timer' = "armed"
               /\ flowpc' = "racing"
               /\ UNCHANGED <<flowResult, handle, flowCloses>>
          ELSE /\ flowpc' = "done"
               /\ flowResult' = Thrown(Err(ErrOpen, ""))
               /\ FlowClose
               /\ UNCHANGED <<racePromise, timer>>
     ELSE UNCHANGED <<racePromise, timer, flowpc, flowResult, handle, flowCloses>>
  /\ UNCHANGED <<urlPort, opened, firstSettle, resp, lastReq, nreq, lateEvents>>
  /\ UNCHANGED <<port, errListeners, listenCbs, pendingListens, conn, attempts, binds,
                 startPromise, tokenPromise>>
  /\ UNCHANGED <<projVars, envVars, fsVars, writeVars, ensureVars, credVars>>

\* The request listener of http.createServer.
HandlerStatus(path, apiKey, error) ==
  IF path = CallbackPath
  THEN IF ~Falsy(error) THEN 400
       ELSE IF Falsy(apiKey) THEN 400
       ELSE 200
  ELSE 404

HandlerOutcomeKeyFirst(path, apiKey, error) ==
  IF path = CallbackPath
  THEN IF ~Falsy(apiKey) THEN [state |-> "resolved", val |-> KeyVal(apiKey)]
       ELSE IF ~Falsy(error) THEN [state |-> "rejected", val |-> Err(ErrAuth, error)]
       ELSE [state |-> "rejected", val |-> Err(ErrNoKey, "")]
  ELSE [state |-> "none", val |-> NoVal]

HandlerOutcome(path, apiKey, error) ==
  IF path = CallbackPath
  THEN IF ~Falsy(error) THEN [state |-> "rejected", val |-> Err(ErrAuth, error)]
       ELSE IF Falsy(apiKey) THEN [state |-> "rejected", val |-> Err(ErrNoKey, "")]
       ELSE [state |-> "resolved", val |-> KeyVal(apiKey)]
  ELSE [state |-> "none", val |-> NoVal]

\* tokenResolve / tokenReject as called by the request listener
HandlerTokenRejectsUnknownPath(tok, path, apiKey, error) ==
  LET o == HandlerOutcome(path, apiKey, error) IN
  IF o.state = "none" THEN Settle(tok, "rejected", Err(ErrNoKey, ""))
  ELSE Settle(tok, o.state, o.val)
HandlerToken(tok, path, apiKey, error) ==
  LET o == HandlerOutcome(path, apiKey, error) IN
  IF o.state = "none" THEN tok ELSE Settle(tok, o.state, o.val)

SessionSettled == firstSettle.state # "pending"

\* One HTTP request is handled.  Requests reach the server while it listens, or over
\* a connection accepted earlier that close() leaves open.
Request(path, apiKey, error) ==
  /\ handle # 0 \/ conn
  /\ LoopIdle
  /\ pendingListens = <<>>
  /\ nreq < MaxRequests
  /\ nreq' = nreq + 1
  /\ conn' = TRUE
  /\ resp' = HandlerStatus(path, apiKey, error)
  /\ lastReq' = [path |-> path, apiKey |-> apiKey, error |-> error,
                 pending |-> tokenPromise.state = "pending"]
  /\ tokenPromise' = HandlerToken(tokenPromise, path, apiKey, error)
  /\ racePromise' = Follow(racePromise, tokenPromise')
  /\ firstSettle' = IF path = CallbackPath /\ ~SessionSettled
                    THEN HandlerOutcome(path, apiKey, error) ELSE firstSettle
  /\ lateEvents' = IF path = CallbackPath /\ SessionSettled
                   THEN lateEvents + 1 ELSE lateEvents
  /\ UNCHANGED <<flowpc, urlPort, opened, openState, timer, flowResult, flowCloses>>
  /\ UNCHANGED <<port, errListeners, listenCbs, pendingListens, handle,
                 attempts, binds, startPromise>>
  /\ UNCHANGED <<projVars, envVars, fsVars, writeVars, ensureVars, credVars>>

\* setTimeout(() => reject(new Error('Authentication timeout after 5 minutes')), 300000)
TimeoutResolves(race) == Settle(race, "resolved", KeyVal(Absent))
TimeoutSettlesWithKey(race) == Settle(race, "resolved", KeyVal("K1"))
TimeoutSettle(race) == Settle(race, "rejected", Err(ErrTimeout, ""))

\* The 5-minute timer expires: reject(new Error('Authentication timeout ...')).
\* It is never cleared, so it also expires after the flow has ended.
TimerFires ==
  /\ timer = "armed"
  /\ LoopIdle
  /\ pendingListens = <<>>
  /\ timer' = "fired"
  /\ racePromise' = TimeoutSettle(racePromise)
  /\ firstSettle' = IF ~SessionSettled
                    THEN [state |-> "rejected", val |-> Err(ErrTimeout, "")]
                    ELSE firstSettle
  /\ lateEvents' = IF SessionSettled THEN lateEvents + 1 ELSE lateEvents
  /\ UNCHANGED <<flowpc, urlPort, opened, openState, flowResult, flowCloses, resp,
                 lastReq, nreq>>
  /\ UNCHANGED <<projVars, envVars, serverVars, fsVars, writeVars, ensureVars, credVars>>

\* saveGlobalApiKey(apiKey): the guard, then writeGlobalConfig({ apiKey })
saveGlobalApiKeyAccepts(k) == ~Falsy(k)

\* The continuation after `await Promise.race(...)`: a rejection goes to the finally
\* block; a credential is handed to saveGlobalApiKey.
FlowAfterRace ==
  /\ flowpc = "racing"
  /\ racePromise.state \in {"resolved", "rejected"}
  /\ wpc = "idle"
  /\ IF racePromise.state = "rejected"
     THEN /\ flowpc' = "done"
          /\ flowResult' = Thrown(racePromise.val)
          /\ FlowClose
          /\ UNCHANGED writeVars
     ELSE /\ flowpc' = "saving"
          /\ IF saveGlobalApiKeyAccepts(racePromise.val.detail)
             THEN /\ wpc' = "read"
                  /\ wresult' = NoVal
             ELSE /\ wpc' = "finished"
                  /\ wresult' = Err("Invalid API key provided", "")
          /\ wcaller' = "auth"
          /\ wdata' = Doc(racePromise.val.detail, Absent)
          /\ UNCHANGED <<wmerged, wprior, wstep, wchmodFailed, nwrites, gchmodOk>>
          /\ UNCHANGED <<flowResult, handle, flowCloses>>
  /\ UNCHANGED <<urlPort, opened, openState, racePromise, timer, firstSettle, resp,
                 lastReq, nreq, lateEvents>>
  /\ UNCHANGED <<port, errListeners, listenCbs, pendingListens, conn, attempts, binds,
                 startPromise, tokenPromise>>
  /\ UNCHANGED <<projVars, envVars, fsVars, ensureVars, credVars>>

\* saveGlobalApiKey has returned or thrown: the finally block closes the server and
\* the flow returns the credential or lets the error through.
FlowAfterSave ==
  /\ flowpc = "saving"
  /\ wpc = "finished"
  /\ wcaller = "auth"
  /\ flowpc' = "done"
  /\ flowResult' = IF wresult = NoVal THEN Returned(racePromise.val.detail)
                   ELSE Thrown(wresult)
  /\ FlowClose
  /\ wpc' = "idle"
  /\ UNCHANGED <<wcaller, wdata, wmerged, wprior, wresult, wstep, wchmodFailed, nwrites,
                 gchmodOk>>
  /\ UNCHANGED <<urlPort, opened, openState, racePromise, timer, firstSettle, resp,
                 lastReq, nreq, lateEvents>>
  /\ UNCHANGED <<port, errListeners, listenCbs, pendingListens, conn, attempts, binds,
                 startPromise, tokenPromise>>
  /\ UNCHANGED <<projVars, envVars, fsVars, ensureVars, credVars>>

\* ------------------------------------------------------ writeGlobalConfig
\* The call is synchronous; its file-system steps are separate actions so that the
\* states in between are states of the model.
WriteFails(step, e) ==
  /\ wpc' = "finished"
  /\ wstep' = step
  /\ wresult' = Err(e, "")

\* const existingData = readGlobalConfig() || {}; const mergedData = {...}
\* (outside the try block: the invalid-JSON error passes through unwrapped)
WRead ==
  /\ wpc = "read"
  /\ LET r == readGlobalConfig(gfile) IN
     /\ wprior' = gfile
     /\ wchmodFailed' = FALSE
     /\ IF ~r.ok
        THEN /\ WriteFails("read", ErrInvalidJSON)
             /\ UNCHANGED wmerged
        ELSE /\ wmerged' = Merge(OrEmpty(r), wdata)
             /\ wpc' = IF rev = "earlier" THEN "mkdir" ELSE "open"
             /\ wstep' = "none"
             /\ UNCHANGED wresult
  /\ UNCHANGED <<wcaller, wdata, nwrites, gchmodOk>>
  /\ UNCHANGED <<projVars, envVars, serverVars, flowVars, fsVars, ensureVars, credVars>>

\* ensureGlobalConfigDir() of the earlier revision
WMkdir(ok) ==
  /\ wpc = "mkdir"
  /\ IF dirExists
     THEN /\ ok
          /\ wpc' = "open"
          /\ UNCHANGED <<dirExists, wresult, wstep>>
     ELSE IF ok
          THEN /\ dirExists' = TRUE
               /\ wpc' = "open"
               /\ UNCHANGED <<wresult, wstep>>
          ELSE /\ WriteFails("mkdir", ErrWrite)
               /\ UNCHANGED dirExists
  /\ UNCHANGED <<gfile, gmode, tmpfile, tmpmode>>
  /\ UNCHANGED <<wcaller, wdata, wmerged, wprior, wchmodFailed, nwrites, gchmodOk>>
  /\ UNCHANGED <<projVars, envVars, serverVars, flowVars, ensureVars, credVars>>

\* fs.writeFileSync(tempPath, ...), first half: the file is created or truncated.
\* An existing file keeps its mode.
TruncateConfig ==
  /\ gfile' = PartialFile
  /\ gmode' = IF gfile.kind = "absent" THEN DefaultMode ELSE gmode
  /\ UNCHANGED <<tmpfile, tmpmode>>
TruncateTemp ==
  /\ tmpfile' = PartialFile
  /\ tmpmode' = IF tmpfile.kind = "absent" THEN DefaultMode ELSE tmpmode
  /\ UNCHANGED <<gfile, gmode>>
WOpen(ok) ==
  /\ wpc = "open"
  /\ IF ok /\ dirExists
     THEN /\ TruncateTemp
          /\ wpc' = "write"
          /\ UNCHANGED <<wresult, wstep>>
     ELSE /\ WriteFails("open", ErrWrite)
          /\ UNCHANGED <<gfile, gmode, tmpfile, tmpmode>>
  /\ UNCHANGED dirExists
  /\ UNCHANGED <<wcaller, wdata, wmerged, wprior, wchmodFailed, nwrites, gchmodOk>>
  /\ UNCHANGED <<projVars, envVars, serverVars, flowVars, ensureVars, credVars>>

\* fs.writeFileSync, second half: JSON.stringify(mergedData) is written out.
WWrite(ok) ==
  /\ wpc = "write"
  /\ IF ok
     THEN /\ tmpfile' = wmerged
          /\ wpc' = "chmod"
          /\ UNCHANGED <<wresult, wstep>>
     ELSE /\ WriteFails("write", ErrWrite)
          /\ UNCHANGED tmpfile
  /\ UNCHANGED <<dirExists, gfile, gmode, tmpmode>>
  /\ UNCHANGED <<wcaller, wdata, wmerged, wprior, wchmodFailed, nwrites, gchmodOk>>
  /\ UNCHANGED <<projVars, envVars, serverVars, flowVars, ensureVars, credVars>>

\* try { fs.chmodSync(tempPath, 0o600) } catch (chmodError) {}
WChmodSkipped(ok) ==
  /\ wpc = "chmod"
  /\ wpc' = "rename"
  /\ wchmodFailed' = ~ok
  /\ UNCHANGED tmpmode
WChmodStep(ok) ==
  /\ wpc = "chmod"
  /\ wpc' = "rename"
  /\ wchmodFailed' = ~ok
  /\ tmpmode' = IF ok THEN OwnerOnly ELSE tmpmode
WChmod(ok) ==
  /\ WChmodStep(ok)
  /\ UNCHANGED <<dirExists, gfile, gmode, tmpfile>>
  /\ UNCHANGED <<wcaller, wdata, wmerged, wprior, wresult, wstep, nwrites, gchmodOk>>
  /\ UNCHANGED <<projVars, envVars, serverVars, flowVars, ensureVars, credVars>>

\* fs.renameSync(tempPath, configPath)
RenameLeavesConfig ==
  /\ UNCHANGED <<gfile, gmode>>
  /\ tmpfile' = NoFile
  /\ tmpmode' = "none"
RenameInPlace ==
  /\ gfile' = tmpfile
  /\ gmode' = tmpmode
  /\ tmpfile' = NoFile
  /\ tmpmode' = "none"
WRename(ok) ==
  /\ wpc = "rename"
  /\ IF ok
     THEN /\ RenameInPlace
          /\ wpc' = "finished"
          /\ wresult' = NoVal
          /\ nwrites' = nwrites + 1
          /\ gchmodOk' = ~wchmodFailed
          /\ UNCHANGED wstep
     ELSE /\ WriteFails("rename", ErrWrite)
          /\ UNCHANGED <<gfile, gmode, tmpfile, tmpmode, nwrites, gchmodOk>>
  /\ UNCHANGED dirExists
  /\ UNCHANGED <<wcaller, wdata, wmerged, wprior, wchmodFailed>>
  /\ UNCHANGED <<projVars, envVars, serverVars, flowVars, ensureVars, credVars>>

\* ----------------------------------------------------- ensureGlobalConfig
FlowNotRunning == flowpc \in {"idle", "done"}

\* ensureGlobalConfig() at server start-up or before an analytics event: reads the
\* config, adds a deviceID when there is none and writes the whole object back.
EnsureGlobalConfig ==
  /\ rev = "current"
  /\ LoopIdle
  /\ FlowNotRunning
  /\ nensure < MaxEnsureCalls
  /\ nensure' = nensure + 1
  /\ UNCHANGED nsave
  /\ LET r == readGlobalConfig(gfile)
         config == OrEmpty(r)
         uuid == UUIDPool[Cardinality(usedUUIDs) + 1]
     IN IF ~r.ok
        THEN /\ ensureResult' = Err(ErrInvalidJSON, "")
             /\ UNCHANGED <<usedUUIDs, writeVars>>
        ELSE IF Falsy(config.deviceID)
        THEN /\ usedUUIDs' = usedUUIDs \cup {uuid}
             /\ wpc' = "read"
             /\ wcaller' = "ensure"
             /\ wdata' = [config EXCEPT !.deviceID = uuid]
             /\ wresult' = NoVal
             /\ ensureResult' = NoVal
             /\ UNCHANGED <<wmerged, wprior, wstep, wchmodFailed, nwrites, gchmodOk>>
        ELSE /\ ensureResult' = [kind |-> "returned", detail |-> config.deviceID]
             /\ UNCHANGED <<usedUUIDs, writeVars>>
  /\ UNCHANGED <<projVars, envVars, serverVars, flowVars, fsVars, credVars>>

\* writeGlobalConfig(config) has returned or thrown inside ensureGlobalConfig
EnsureAfterWrite ==
  /\ wpc = "finished"
  /\ wcaller = "ensure"
  /\ wpc' = "idle"
  /\ ensureResult' = IF wresult = NoVal
                     THEN [kind |-> "returned", detail |-> wdata.deviceID]
                     ELSE wresult
  /\ UNCHANGED <<usedUUIDs, nensure, nsave>>
  /\ UNCHANGED <<wcaller, wdata, wmerged, wprior, wresult, wstep, wchmodFailed, nwrites,
                 gchmodOk>>
  /\ UNCHANGED <<projVars, envVars, serverVars, flowVars, fsVars, credVars>>

\* saveGlobalApiKey(apiKey) called on its own, as the flow calls it with the
\* credential it received.
SaveGlobalApiKey(k) ==
  /\ LoopIdle
  /\ FlowNotRunning
  /\ nsave < MaxSaveCalls
  /\ nsave' = nsave + 1
  /\ wcaller' = "save"
  /\ wdata' = Doc(k, Absent)
  /\ IF saveGlobalApiKeyAccepts(k)
     THEN /\ wpc' = "read"
          /\ wresult' = NoVal
     ELSE /\ wpc' = "finished"
          /\ wresult' = Err("Invalid API key provided", "")
  /\ UNCHANGED <<wmerged, wprior, wstep, wchmodFailed, nwrites, gchmodOk>>
  /\ UNCHANGED <<usedUUIDs, nensure, ensureResult>>
  /\ UNCHANGED <<projVars, envVars, serverVars, flowVars, fsVars, credVars>>

SaveAfterWrite ==
  /\ wpc = "finished"
  /\ wcaller = "save"
  /\ wpc' = "idle"
  /\ UNCHANGED <<wcaller, wdata, wmerged, wprior, wresult, wstep, wchmodFailed, nwrites,
                 gchmodOk>>
  /\ UNCHANGED <<projVars, envVars, serverVars, flowVars, fsVars, ensureVars, credVars>>

\* ------------------------------------- two processes writing the config
\* Two tool invocations are two processes: each runs its synchronous call to the
\* end, and the operating system interleaves their system calls.  "auth" runs
\* saveGlobalApiKey(K1) at the end of a login, "ensure" runs ensureGlobalConfig().
\* Both write the same temp path, <configPath>.tmp.
Procs == {"auth", "ensure"}
ProcIdle ==
  [pc |-> "idle", data |-> EmptyDoc, merged |-> EmptyDoc, err |-> "",
   wrote |-> FALSE, seen |-> {}]

\* The processes whose rename has replaced the config file.
Renamed == {q \in Procs : cw[q].wrote}

RaceUnchanged ==
  UNCHANGED <<envVars, serverVars, flowVars, writeVars, ensureVars, credVars,
              localVars, zipVars, readVars, dirExists>>

\* saveGlobalApiKey(apiKey) up to the call of writeGlobalConfig({ apiKey })
ConcurrentSave(k) ==
  /\ cw["auth"].pc = "idle"
  /\ cw' = [cw EXCEPT !["auth"].pc = "wread", !["auth"].data = Doc(k, Absent)]
  /\ UNCHANGED <<gfile, gmode, tmpfile, tmpmode>>
  /\ RaceUnchanged

\* ensureGlobalConfig(): let config = readGlobalConfig() || {}; a deviceID is added
\* when there is none and writeGlobalConfig(config) is called with the whole object.
ConcurrentEnsure ==
  /\ cw["ensure"].pc = "idle"
  /\ LET r == readGlobalConfig(gfile)
         config == OrEmpty(r)
     IN cw' = [cw EXCEPT !["ensure"] =
                 IF ~r.ok THEN [@ EXCEPT !.pc = "done", !.err = ErrInvalidJSON]
                 ELSE IF Falsy(config.deviceID)
                 THEN [@ EXCEPT !.pc = "wread", !.seen = Renamed,
                                !.data = [config EXCEPT !.deviceID = UUIDPool[1]]]
                 ELSE [@ EXCEPT !.pc = "done", !.seen = Renamed]]
  /\ UNCHANGED <<gfile, gmode, tmpfile, tmpmode>>
  /\ RaceUnchanged

\* writeGlobalConfig: const existingData = readGlobalConfig() || {};
\* const mergedData = { ...existingData, ...data }
ProcRead(p) ==
  /\ cw[p].pc = "wread"
  /\ LET r == readGlobalConfig(gfile) IN
     cw' = [cw EXCEPT ![p] =
              IF ~r.ok THEN [@ EXCEPT !.pc = "done", !.err = ErrInvalidJSON]
              ELSE [@ EXCEPT !.pc = "wwrite", !.merged = Merge(OrEmpty(r), cw[p].data),
                             !.seen = IF p = "auth" THEN Renamed ELSE @]]
  /\ UNCHANGED <<gfile, gmode, tmpfile, tmpmode>>
  /\ RaceUnchanged

\* fs.writeFileSync(tempPath, JSON.stringify(mergedData)); fs.chmodSync(tempPath, 0o600)
ProcWriteTemp(p, ok) ==
  /\ cw[p].pc = "wwrite"
  /\ IF ok
     THEN /\ tmpfile' = cw[p].merged
          /\ tmpmode' = OwnerOnly
          /\ cw' = [cw EXCEPT ![p].pc = "rename"]
     ELSE /\ tmpfile' = PartialFile
          /\ tmpmode' = IF tmpfile.kind = "absent" THEN DefaultMode ELSE tmpmode
          /\ cw' = [cw EXCEPT ![p].pc = "done", ![p].err = ErrWrite]
  /\ UNCHANGED <<gfile, gmode>>
  /\ RaceUnchanged

\* fs.renameSync(tempPath, configPath): ENOENT when the other process has renamed
\* the temp file away
ProcRename(p) ==
  /\ cw[p].pc = "rename"
  /\ IF tmpfile.kind = "absent"
     THEN /\ cw' = [cw EXCEPT ![p].pc = "done", ![p].err = ErrWrite]
          /\ UNCHANGED <<gfile, gmode, tmpfile, tmpmode>>
     ELSE /\ RenameInPlace
          /\ cw' = [cw EXCEPT ![p].pc = "done", ![p].wrote = TRUE]
  /\ RaceUnchanged

\* ------------------------------------------------------- credential checks
\* let apiKey = process.env.API_KEY; if (!apiKey) apiKey = getGlobalApiKey();
ResolveApiKey(env, f) == IF ~Falsy(env) THEN env ELSE getGlobalApiKey(f)

CredResult(op, status, key) ==
  /\ credOp' = op
  /\ credResult' = [status |-> status, key |-> key, netBefore |-> netCalls]

\* validateApiKey(): throws the no-API-key message when no key is found
ValidateApiKey ==
  /\ LET apiKey == ResolveApiKey(envApiKey, gfile) IN
     IF Falsy(apiKey)
     THEN CredResult("validateApiKey", ErrMissingApiKey, Absent)
     ELSE CredResult("validateApiKey", "ok", apiKey)
  /\ UNCHANGED netCalls
  /\ UNCHANGED <<projVars, envVars, serverVars, flowVars, fsVars, writeVars, ensureVars>>

\* fetchManagementApi(path, options): throws before fetch() when no key is found,
\* otherwise sends the request with Authorization: Bearer <key>
FetchManagementApi ==
  /\ netCalls < MaxNetCalls
  /\ LET apiKey == ResolveApiKey(envApiKey, gfile) IN
     IF Falsy(apiKey)
     THEN /\ CredResult("fetchManagementApi", ErrApiKeyNotFound, Absent)
          /\ UNCHANGED netCalls
     ELSE /\ CredResult("fetchManagementApi", "ok", apiKey)
          /\ netCalls' = netCalls + 1
  /\ UNCHANGED <<projVars, envVars, serverVars, flowVars, fsVars, writeVars, ensureVars>>

\* The start of reviewTool: const globalConfig = getGlobalConfig();
\* if (!globalConfig?.apiKey) throw new Error(ERRORS.MISSING_API_KEY).
\* A tool that passes the check goes on to requests made by fetchManagementApi.
ReviewTool ==
  /\ LET r == readGlobalConfig(gfile) IN
     IF ~r.ok
     THEN CredResult("reviewTool", ErrInvalidJSON, Absent)
     ELSE IF r.doc.kind # "doc" \/ Falsy(r.doc.apiKey)
     THEN CredResult("reviewTool", ErrMissingApiKey, Absent)
     ELSE CredResult("reviewTool", "ok", ResolveApiKey(envApiKey, gfile))
  /\ UNCHANGED netCalls
  /\ UNCHANGED <<projVars, envVars, serverVars, flowVars, fsVars, writeVars, ensureVars>>

\* ------------------------------------------------- reading a config file
\* The three readers: getGlobalConfig (src/utils/global-config.js), readGlobalConfig
\* (part_026) and readLocalConfig (part_027).  Each runs fs.accessSync, fs.readFileSync
\* and JSON.parse in one try block and sorts the error out in the catch block.
Readers == {"getGlobalConfig", "readGlobalConfig", "readLocalConfig"}

\* What the file holds.  "absent": there is no file.  "object": a JSON object.
\* "null": the JSON literal null.  "garbage": text that is not JSON.
\* "garbage-ENOENT": text that is not JSON and has the letters ENOENT where the parser
\* stops, as in { "apiKey": ENOENT }.
Contents == {"absent", "object", "null", "garbage", "garbage-ENOENT"}

\* The error fs.accessSync / fs.readFileSync throw: error.code, and error.message,
\* which is "<code>: <text>, <syscall> '<path>'" and so holds the path of the file.
FsError(code, pathHasENOENT) ==
  [code |-> code, syntax |-> FALSE,
   mentionsENOENT |-> code = "ENOENT" \/ pathHasENOENT]

\* The SyntaxError of JSON.parse.  Runtimes differ in its message: "Unexpected token E
\* in JSON at position 12", or "Unexpected token 'E', ..."ENOENT }" is not valid JSON",
\* which quotes the text around the position.
ParseError(content, quotesText) ==
  [code |-> "", syntax |-> TRUE,
   mentionsENOENT |-> quotesText /\ content = "garbage-ENOENT"]

NoError == [code |-> "", syntax |-> FALSE, mentionsENOENT |-> FALSE]
ReadResult(kind, e) == [kind |-> kind, err |-> e]

\* catch (error): ENOENT gives null, a SyntaxError the invalid-JSON error, anything
\* else is thrown again.  readLocalConfig tests only error.message.includes('ENOENT').
readCatch(fn, e) ==
  IF (fn # "readLocalConfig" /\ e.code = "ENOENT") \/ e.mentionsENOENT
  THEN ReadResult("null", NoError)
  ELSE IF e.syntax THEN ReadResult("invalid-json", NoError)
  ELSE ReadResult("thrown", e)

\* The try block: io is the failure of accessSync / readFileSync on a file that is
\* there ("none" when they succeed).
readConfig(in) ==
  IF in.content = "absent" THEN readCatch(in.fn, FsError("ENOENT", in.pathHasENOENT))
  ELSE IF in.io # "none" THEN readCatch(in.fn, FsError(in.io, in.pathHasENOENT))
  ELSE IF in.content \in {"garbage", "garbage-ENOENT"}
  THEN readCatch(in.fn, ParseError(in.content, in.quotesText))
  ELSE IF in.content = "null" THEN ReadResult("null", NoError)
  ELSE ReadResult("object", NoError)

NotRead == ReadResult("none", NoError)

ReadConfig ==
  /\ rresult = NotRead
  /\ rresult' = readConfig(rin)
  /\ UNCHANGED rin
  /\ UNCHANGED <<authVars, localVars, zipVars, raceVars>>

\* ------------------------------------------------------ project config file
\* A key of a JSON document: present with a value, or not there.
NoName == [set |-> FALSE, val |-> <<>>]
Name(n) == [set |-> TRUE, val |-> n]
NoStr == [set |-> FALSE, val |-> ""]
Str(x) == [set |-> TRUE, val |-> x]
FalsyName(f) == ~f.set \/ Len(f.val) = 0
FalsyStr(f) == ~f.set \/ f.val = ""

LDoc(a, o, st, e) == [kind |-> "doc", app |-> a, org |-> o, settings |-> st, extra |-> e]
LEmpty == LDoc(NoName, NoStr, NoStr, NoStr)
LAbsent == [LEmpty EXCEPT !.kind = "absent"]
LInvalid == [LEmpty EXCEPT !.kind = "invalid"]
LPartial == [LEmpty EXCEPT !.kind = "partial"]
LocalKeys == DOMAIN LEmpty \ {"kind"}

DEFAULT_ORG == "personal"
\* const defaultConfig = { org: DEFAULT_ORG, settings: {} }
defaultConfig == LDoc(NoName, Str(DEFAULT_ORG), Str("{}"), NoStr)

\* readLocalConfig / readDotFile: null when the file is absent, throws on bad JSON
readLocalConfig(f) ==
  IF f.kind = "absent" THEN [ok |-> TRUE, found |-> FALSE, doc |-> LEmpty]
  ELSE IF f.kind = "doc" THEN [ok |-> TRUE, found |-> TRUE, doc |-> f]
  ELSE [ok |-> FALSE, found |-> FALSE, doc |-> LEmpty]

\* { ...a, ...b }
SpreadFirstWins(a, b) ==
  [k \in DOMAIN a |-> IF k = "kind" THEN "doc" ELSE IF a[k].set THEN a[k] ELSE b[k]]
Spread(a, b) ==
  [k \in DOMAIN a |-> IF k = "kind" THEN "doc" ELSE IF b[k].set THEN b[k] ELSE a[k]]

ErrLocalJSON == "Invalid JSON in .endgame file"
ErrLocalWrite == "Failed to write .endgame file"
ErrNameRequired == "appName is required for setup"
ErrInvalidAppName == "appName must be lowercase, alphanumeric characters and dashes only"
ErrAppNameConflict == "App name conflict"
ErrSetupRequired == "No .endgame file found in the root directory"
ErrAppNameMissing == "No app property found in .endgame file"
ErrAccount == "Failed to get account"

\* The ways fs.writeFileSync(dotFilePath, ...) can end: written, not opened, or cut
\* short after the file was created or truncated.
WriteOutcomes == {"ok", "open-fails", "write-fails"}

\* writeLocalConfig / writeDotFile({ appSourcePath, data }): the file afterwards and
\* the error thrown ("" when it returns)
writeLocalConfig(f, data, out) ==
  LET r == readLocalConfig(f)
      endgameData == Spread(Spread(defaultConfig, r.doc), data)
  IN IF ~r.ok THEN [file |-> f, err |-> ErrLocalJSON]
     ELSE IF out = "ok" THEN [file |-> endgameData, err |-> ""]
     ELSE IF out = "open-fails" THEN [file |-> f, err |-> ErrLocalWrite]
     ELSE [file |-> LPartial, err |-> ErrLocalWrite]

\* /^[a-z0-9-]{3,20}$/ over names given as sequences of characters
AppNameChars == {"a", "b", "m", "p", "y", "0", "7", "-"}
appNameRegexAnyLength(n) == \A i \in 1..Len(n) : n[i] \in AppNameChars
appNameRegex(n) ==
  /\ Len(n) >= MinAppNameLen
  /\ Len(n) <= MaxAppNameLen
  /\ \A i \in 1..Len(n) : n[i] \in AppNameChars

\* essentialData: { app: appName }, and in setup of src/sdk.js also org and settings
essentialData(name) ==
  IF lrev = "sdk" THEN LDoc(Name(name), Str("personal"), Str("{}"), NoStr)
  ELSE LDoc(Name(name), NoStr, NoStr, NoStr)

\* createLocalConfig / setup({ appSourcePath, appName })
createLocalConfigNoConflictCheck(f, name, out) ==
  LET r == readLocalConfig(f) IN
  IF Len(name) = 0 THEN [file |-> f, err |-> ErrNameRequired]
  ELSE IF ~appNameRegex(name) THEN [file |-> f, err |-> ErrInvalidAppName]
  ELSE IF ~r.ok THEN [file |-> f, err |-> ErrLocalJSON]
  ELSE writeLocalConfig(f, essentialData(name), out)
createLocalConfig(f, name, out) ==
  LET r == readLocalConfig(f) IN
  IF Len(name) = 0 THEN [file |-> f, err |-> ErrNameRequired]
  ELSE IF ~appNameRegex(name) THEN [file |-> f, err |-> ErrInvalidAppName]
  ELSE IF ~r.ok THEN [file |-> f, err |-> ErrLocalJSON]
  ELSE IF ~FalsyName(r.doc.app) /\ r.doc.app.val # name
  THEN [file |-> f, err |-> ErrAppNameConflict]
  ELSE writeLocalConfig(f, essentialData(name), out)

\* resolveAppName: const dotfileData = readLocalConfig(...) || {};
\* `if (!dotfileData)` tests an object, which is never falsy, so the
\* no-file-found error is not thrown
resolveAppName(f) ==
  LET r == readLocalConfig(f)
      dotfileIsFalsy == FALSE
  IN IF ~r.ok THEN [file |-> f, err |-> ErrLocalJSON]
     ELSE IF dotfileIsFalsy THEN [file |-> f, err |-> ErrSetupRequired]
     ELSE IF FalsyName(r.doc.app) THEN [file |-> f, err |-> ErrAppNameMissing]
     ELSE [file |-> f, err |-> ""]

\* resolveAccountData({ appSourcePath }): reads the org, writes the default org back
\* when the file has none, then asks the API for the account
resolveAccountData(f, hasPath, out, accountOk) ==
  LET r == readLocalConfig(f)
      w == writeLocalConfig(f, LDoc(NoName, Str(DEFAULT_ORG), NoStr, NoStr), out)
      after == IF hasPath /\ FalsyStr(r.doc.org) THEN w ELSE [file |-> f, err |-> ""]
  IN IF hasPath /\ ~r.ok THEN [file |-> f, err |-> ErrLocalJSON]
     ELSE IF after.err # "" THEN after
     ELSE [file |-> after.file, err |-> IF accountOk THEN "" ELSE ErrAccount]

Rep(c, n) == [i \in 1..n |-> c]
NoData == LEmpty
Call(op, name, data, r) ==
  [op |-> op, name |-> name, data |-> data, err |-> r.err,
   before |-> lfile, after |-> r.file]

LocalStep(op, name, data, r) ==
  /\ lfile' = r.file
  /\ lhist' = Append(lhist, Call(op, name, data, r))
  /\ UNCHANGED lrev
  /\ UNCHANGED <<authVars, zipVars, readVars, raceVars>>

Setup(name, out) ==
  /\ Len(lhist) < MaxLocalOps
  /\ LocalStep("setup", name, NoData, createLocalConfig(lfile, name, out))

ResolveAppName ==
  /\ Len(lhist) < MaxLocalOps
  /\ LocalStep("resolveAppName", <<>>, NoData, resolveAppName(lfile))

ResolveAccountData(hasPath, out, accountOk) ==
  /\ Len(lhist) < MaxLocalOps
  /\ LocalStep(IF hasPath THEN "resolveAccountData" ELSE "resolveAccountData-nopath",
               <<>>, NoData, resolveAccountData(lfile, hasPath, out, accountOk))

WriteLocalConfig(data, out) ==
  /\ Len(lhist) < MaxLocalOps
  /\ LocalStep("writeLocalConfig", <<>>, data, writeLocalConfig(lfile, data, out))

\* ------------------------------------------------------------ zip archive
\* A file or directory name is a sequence of pieces, so that startsWith('.env') is
\* computed on it; a path is a sequence of names relative to srcDir.
NODE_MODULES == <<"node_modules">>
DOT_ENV == <<".env">>
startsWithDotEnv(name) == Len(name) > 0 /\ name[1] = ".env"

\* if (entry.name === 'node_modules') continue;
\* if (entry.name.startsWith('.env')) continue;
SkippedExactNames(name) == name = NODE_MODULES \/ name = DOT_ENV
Skipped(name) == name = NODE_MODULES \/ startsWithDotEnv(name)

NoPath == <<>>
IsPrefix(dir, p) == Len(p) > Len(dir) /\ SubSeq(p, 1, Len(dir)) = dir

\* collectFiles(dir, base): readdir(dir, { withFileTypes: true }), skipping the
\* excluded names and the output file, descending into directories and keeping
\* the entries for which isFile() holds (a symbolic link is neither).
RECURSIVE collectFiles(_, _, _)
collectFiles(listing, outPath, dir) ==
  LET under == {q \in listing : IsPrefix(dir, q.path)}
      entries == {q.path[Len(dir) + 1] : q \in under}
      Visit(name) ==
        LET fullPath == Append(dir, name)
            isDirectory == \E q \in under : IsPrefix(fullPath, q.path)
            isFile == \E q \in under : q.path = fullPath /\ q.type = "file"
        IN IF Skipped(name) THEN {}
           ELSE IF fullPath = outPath THEN {}
           ELSE IF isDirectory THEN collectFiles(listing, outPath, fullPath)
           ELSE IF isFile THEN {fullPath}
           ELSE {}
  IN UNION {Visit(name) : name \in entries}

\* deployApp of src/sdk.js writes the archive into the source directory; createTempZip
\* writes it to os.tmpdir().
TmpZipName == <<"tmp-", "1", ".zip">>
OutPath == IF zmode = "deploy-sdk" THEN <<TmpZipName>> ELSE NoPath
ViaCreateTempZip == zmode # "deploy-sdk"

\* What readdir sees: the source tree, and the archive itself once it has been
\* created inside the source directory.
Listing ==
  IF OutPath # NoPath /\ zfile # "absent"
  THEN ztree \cup {[path |-> OutPath, type |-> "file"]}
  ELSE ztree

ZipUnchanged ==
  UNCHANGED <<authVars, localVars, readVars, raceVars, zmode, ztree, zinject>>

\* createTempZip / zipDirectory up to the first await: fs.createWriteStream(outPath)
\* starts opening the file and collectFiles calls readdir.
ZipStart ==
  /\ zpc = "idle"
  /\ zpc' = "enumerate"
  /\ zopen' = "pending"
  /\ UNCHANGED <<zfile, zfiles, zentries, zerr, zdestroyed, zcreated, zuploaded,
                 zcleanups, zrmFailed, zcleanupEarly, zresult>>
  /\ ZipUnchanged

\* The open() of the write stream completes in the thread pool: flag 'w' creates or
\* truncates the file.  A stream destroyed in the meantime closes the descriptor and
\* leaves the file.
OpenCompletes(ok) ==
  /\ zopen = "pending"
  /\ zopen' = IF ok THEN "opened" ELSE "failed"
  /\ zfile' = IF ok THEN "partial" ELSE zfile
  /\ UNCHANGED <<zpc, zfiles, zentries, zerr, zdestroyed, zcreated, zuploaded,
                 zcleanups, zrmFailed, zcleanupEarly, zresult>>
  /\ ZipUnchanged

ZipFails(e) ==
  /\ zpc' = "catch"
  /\ zerr' = e

\* const files = await collectFiles(srcDir, '')
Enumerate(ok) ==
  /\ zpc = "enumerate"
  /\ IF ok
     THEN /\ zfiles' = collectFiles(Listing, OutPath, <<>>)
          /\ zpc' = "stat"
          /\ UNCHANGED zerr
     ELSE /\ ZipFails("readdir failed")
          /\ UNCHANGED zfiles
  /\ UNCHANGED <<zopen, zfile, zentries, zdestroyed, zcreated, zuploaded,
                 zcleanups, zrmFailed, zcleanupEarly, zresult>>
  /\ ZipUnchanged

\* await Promise.all(files.map(... stat(fullPath); zipfile.addReadStream(...)))
AddFiles(ok) ==
  /\ zpc = "stat"
  /\ ok \/ zfiles # {}
  /\ IF ok
     THEN /\ zentries' = zfiles
          /\ zpc' = "inject"
          /\ UNCHANGED zerr
     ELSE /\ ZipFails("stat failed")
          /\ UNCHANGED zentries
  /\ UNCHANGED <<zopen, zfile, zfiles, zdestroyed, zcreated, zuploaded,
                 zcleanups, zrmFailed, zcleanupEarly, zresult>>
  /\ ZipUnchanged

\* for (const { src, dest } of additionalFiles) { stat(src); addReadStream(..., dest) }
Inject(entries, inject) == entries \cup {<<inject[i]>> : i \in 1..Len(inject)}
AddInjections(ok) ==
  /\ zpc = "inject"
  /\ ok \/ zinject # <<>>
  /\ IF ok
     THEN /\ zentries' = Inject(zentries, zinject)
          /\ zpc' = "finalize"
          /\ UNCHANGED zerr
     ELSE /\ ZipFails("stat of additional file failed")
          /\ UNCHANGED zentries
  /\ UNCHANGED <<zopen, zfile, zfiles, zdestroyed, zcreated, zuploaded,
                 zcleanups, zrmFailed, zcleanupEarly, zresult>>
  /\ ZipUnchanged

\* zipfile.end(); await endPromise: 'close' once everything is written, 'error'
\* when the file could not be opened or written.
Finalize(ok) ==
  /\ zpc = "finalize"
  /\ zopen # "pending"
  /\ IF zopen = "opened" /\ ok
     THEN /\ zfile' = "complete"
          /\ zcreated' = TRUE
          /\ zpc' = IF ViaCreateTempZip THEN "created" ELSE "upload"
          /\ UNCHANGED zerr
     ELSE /\ ZipFails("write failed")
          /\ UNCHANGED <<zfile, zcreated>>
  /\ UNCHANGED <<zopen, zfiles, zentries, zdestroyed, zuploaded,
                 zcleanups, zrmFailed, zcleanupEarly, zresult>>
  /\ ZipUnchanged

\* A read stream of a file fails while the archive is written: nothing listens for
\* 'error' on it, so the error is raised as an uncaught exception and
\* zipDirectory never settles.
ReadStreamFails ==
  /\ zpc = "finalize"
  /\ zentries # {}
  /\ zpc' = "crashed"
  /\ UNCHANGED <<zopen, zfile, zfiles, zentries, zerr, zdestroyed, zcreated, zuploaded,
                 zcleanups, zrmFailed, zcleanupEarly, zresult>>
  /\ ZipUnchanged

\* cleanupTempZip(zipPath): if (zipPath && fs.existsSync(zipPath)) await rm(zipPath,
\* { force: true }), any error logged and swallowed
KeepFile(ok) ==
  /\ UNCHANGED zfile
  /\ zrmFailed' = FALSE
cleanupTempZip(ok) ==
  IF zfile = "absent"
  THEN /\ UNCHANGED zfile
       /\ zrmFailed' = FALSE
  ELSE /\ zfile' = IF ok THEN "absent" ELSE zfile
       /\ zrmFailed' = ~ok

ThrowToCaller ==
  /\ zpc' = "done"
  /\ zresult' = "thrown"

\* catch (error) of zipDirectory: outStream.destroy(); await cleanupTempZip(outPath);
\* throw error
ZipCatch(ok) ==
  /\ zpc = "catch"
  /\ ok \/ zfile # "absent"
  /\ zdestroyed' = TRUE
  /\ cleanupTempZip(ok)
  /\ IF ViaCreateTempZip
     THEN /\ zpc' = "catch2"
          /\ UNCHANGED zresult
     ELSE ThrowToCaller
  /\ UNCHANGED <<zopen, zfiles, zentries, zerr, zcreated, zuploaded, zcleanups,
                 zcleanupEarly>>
  /\ ZipUnchanged

\* catch (error) of createTempZip: await cleanupTempZip(zipPath); throw error
TempZipCatch(ok) ==
  /\ zpc = "catch2"
  /\ ok \/ zfile # "absent"
  /\ cleanupTempZip(ok)
  /\ ThrowToCaller
  /\ UNCHANGED <<zopen, zfiles, zentries, zerr, zdestroyed, zcreated, zuploaded,
                 zcleanups, zcleanupEarly>>
  /\ ZipUnchanged

\* The caller of createTempZip calls the cleanup function it was given.
Cleanup(ok) ==
  /\ zmode = "createTempZip"
  /\ zpc = "created"
  /\ zcleanups < MaxCleanupCalls
  /\ ok \/ zfile # "absent"
  /\ cleanupTempZip(ok)
  /\ zcleanups' = zcleanups + 1
  /\ UNCHANGED <<zpc, zopen, zfiles, zentries, zerr, zdestroyed, zcreated, zuploaded,
                 zcleanupEarly, zresult>>
  /\ ZipUnchanged

\* ------------------------------------------------------------- deployApp
\* createTempZip has returned to deployApp (src/unnamed/part_008)
DeployGotZip ==
  /\ zmode = "deploy-part_008"
  /\ zpc = "created"
  /\ zpc' = "upload"
  /\ UNCHANGED <<zopen, zfile, zfiles, zentries, zerr, zdestroyed, zcreated, zuploaded,
                 zcleanups, zrmFailed, zcleanupEarly, zresult>>
  /\ ZipUnchanged

\* Where deployApp goes when a step after the archive throws: to the finally block
\* in part_008, out of the function in src/sdk.js.
AfterFailure == IF zmode = "deploy-part_008" THEN "finally" ELSE "done"

\* await uploadZipFile(tmpZipPath, presignedUrl)
Upload(ok) ==
  /\ zpc = "upload"
  /\ zuploaded' = IF ok THEN "ok" ELSE "failed"
  /\ zpc' = IF ok THEN "deploy" ELSE AfterFailure
  /\ zresult' = IF ok THEN zresult ELSE "thrown"
  /\ UNCHANGED <<zopen, zfile, zfiles, zentries, zerr, zdestroyed, zcreated, zcleanups,
                 zrmFailed, zcleanupEarly>>
  /\ ZipUnchanged

\* the POST to /orgs/<id>/deploy: a result, or a failure that throws
DeployRequest(ok) ==
  /\ zpc = "deploy"
  /\ zresult' = IF ok THEN "returned" ELSE "thrown"
  /\ zpc' = IF zmode = "deploy-part_008" THEN "finally"
            ELSE IF ok THEN "unlink" ELSE "done"
  /\ UNCHANGED <<zopen, zfile, zfiles, zentries, zerr, zdestroyed, zcreated, zuploaded,
                 zcleanups, zrmFailed, zcleanupEarly>>
  /\ ZipUnchanged

\* finally { await cleanup(); } of part_008
DeployCleanupEarly == zuploaded = "none"
DeployFinally(ok) ==
  /\ zpc = "finally"
  /\ ok \/ zfile # "absent"
  /\ cleanupTempZip(ok)
  /\ zcleanups' = zcleanups + 1
  /\ zcleanupEarly' = (zcleanupEarly \/ DeployCleanupEarly)
  /\ zpc' = "done"
  /\ UNCHANGED <<zopen, zfiles, zentries, zerr, zdestroyed, zcreated, zuploaded, zresult>>
  /\ ZipUnchanged

\* try { fs.unlinkSync(tmpZipPath) } catch { log } of src/sdk.js, on success only
DeployUnlink(ok) ==
  /\ zpc = "unlink"
  /\ cleanupTempZip(ok)
  /\ zcleanups' = zcleanups + 1
  /\ zcleanupEarly' = (zcleanupEarly \/ DeployCleanupEarly)
  /\ zpc' = "done"
  /\ UNCHANGED <<zopen, zfiles, zentries, zerr, zdestroyed, zcreated, zuploaded, zresult>>
  /\ ZipUnchanged

\* ---------------------------------------------------------- specifications
\* The project side is not touched by the authentication flow.
InitRace == cw = [p \in Procs |-> ProcIdle]

InitRead ==
  /\ rin = [fn |-> "getGlobalConfig", content |-> "absent", io |-> "none",
             pathHasENOENT |-> FALSE, quotesText |-> FALSE]
  /\ rresult = NotRead

InitProj ==
  /\ InitRead
  /\ InitRace
  /\ lrev = "local-config"
  /\ lfile = LAbsent
  /\ lhist = <<>>
  /\ zmode = "createTempZip"
  /\ ztree = {}
  /\ zinject = <<>>
  /\ zpc = "idle" /\ zopen = "none" /\ zfile = "absent"
  /\ zfiles = {} /\ zentries = {} /\ zerr = ""
  /\ zdestroyed = FALSE /\ zcreated = FALSE /\ zuploaded = "none"
  /\ zcleanups = 0 /\ zrmFailed = FALSE /\ zcleanupEarly = FALSE
  /\ zresult = "none"

InitServer ==
  /\ port = BasePort
  /\ errListeners = 0
  /\ listenCbs = 0
  /\ pendingListens = <<>>
  /\ handle = 0
  /\ conn = FALSE
  /\ attempts = <<>>
  /\ binds = <<>>
  /\ startPromise = StartPending
  /\ tokenPromise = PendingPromise

InitFlow ==
  /\ flowpc = "idle"
  /\ urlPort = 0
  /\ opened = FALSE
  /\ openState = "none"
  /\ racePromise = [state |-> "none", val |-> NoVal]
  /\ timer = "unset"
  /\ firstSettle = PendingPromise
  /\ flowResult = NoResult
  /\ flowCloses = 0
  /\ resp = 0
  /\ lastReq = [path |-> "", apiKey |-> Absent, error |-> Absent, pending |-> FALSE]
  /\ nreq = 0
  /\ lateEvents = 0

InitWrite ==
  /\ wpc = "idle"
  /\ wcaller = "none"
  /\ wdata = EmptyDoc
  /\ wmerged = EmptyDoc
  /\ wprior = NoFile
  /\ wresult = NoVal
  /\ wstep = "none"
  /\ wchmodFailed = FALSE
  /\ nwrites = 0
  /\ gchmodOk = FALSE
  /\ usedUUIDs = {}
  /\ nensure = 0
  /\ nsave = 0
  /\ ensureResult = NoVal

InitCred ==
  /\ credOp = "none"
  /\ credResult = [status |-> "none", key |-> Absent, netBefore |-> 0]
  /\ netCalls = 0

InitFiles == {NoFile, BadFile, EmptyDoc, Doc("K2", "D4"), Doc(Absent, "D4")}

\* The login flow, one run of startDashboardAuthFlow, with the file-system steps of
\* the saveGlobalApiKey call it makes.
OccupiedPatterns ==
  {{}, {8000, 8001}, {8000, 8001, 8003, 8007}, Ports}

Init ==
  /\ rev \in {"current", "earlier"}
  /\ listenIdCheck \in BOOLEAN
  /\ occupied \in OccupiedPatterns
  /\ envApiKey = Absent
  /\ InitServer /\ InitFlow /\ InitWrite /\ InitCred /\ InitProj
  /\ dirExists = TRUE
  /\ gfile \in {NoFile, BadFile, Doc("K2", "D4"), Doc(Absent, "D4")}
  /\ gmode = IF gfile = NoFile THEN "none" ELSE OwnerOnly
  /\ tmpfile = NoFile
  /\ tmpmode = "none"

WriteSteps ==
  \/ WRead
  \/ \E ok \in BOOLEAN : WMkdir(ok)
  \/ \E ok \in BOOLEAN : WOpen(ok)
  \/ \E ok \in BOOLEAN : WWrite(ok)
  \/ \E ok \in BOOLEAN : WChmod(ok)
  \/ \E ok \in BOOLEAN : WRename(ok)

Next ==
  \/ StartFlow
  \/ DoListen
  \/ FlowAfterStart
  \/ \E ok \in BOOLEAN : OpenDone(ok)
  \/ \E path \in Paths, apiKey \in {Absent, ""} \cup Keys,
        error \in {Absent, ""} \cup ErrorStrings : Request(path, apiKey, error)
  \/ TimerFires
  \/ FlowAfterRace
  \/ FlowAfterSave
  \/ WriteSteps

Spec == Init /\ [][Next]_vars

\* Start-up of the callback server under every pattern of occupied ports.
InitPorts ==
  /\ rev \in {"current", "earlier"}
  /\ listenIdCheck \in BOOLEAN
  /\ occupied \in SUBSET Ports
  /\ envApiKey = Absent
  /\ InitServer /\ InitFlow /\ InitWrite /\ InitCred /\ InitProj
  /\ dirExists = TRUE
  /\ gfile = NoFile
  /\ gmode = "none"
  /\ tmpfile = NoFile
  /\ tmpmode = "none"

NextPorts ==
  \/ StartFlow
  \/ DoListen
  \/ FlowAfterStart

SpecPorts == InitPorts /\ [][NextPorts]_vars

\* Calls that write the global config file, one after the other.
InitConfig ==
  /\ rev \in {"current", "earlier"}
  /\ listenIdCheck = TRUE
  /\ occupied = {}
  /\ envApiKey = Absent
  /\ InitServer /\ InitFlow /\ InitWrite /\ InitCred /\ InitProj
  /\ dirExists \in BOOLEAN
  /\ gfile \in InitFiles
  /\ dirExists \/ gfile = NoFile
  /\ gmode \in {"none", DefaultMode, OwnerOnly}
  /\ (gmode = "none") <=> (gfile = NoFile)
  /\ tmpfile = NoFile
  /\ tmpmode = "none"

NextConfig ==
  \/ EnsureGlobalConfig
  \/ EnsureAfterWrite
  \/ \E k \in Keys : SaveGlobalApiKey(k)
  \/ SaveAfterWrite
  \/ WriteSteps

SpecConfig == InitConfig /\ [][NextConfig]_vars

\* The credential checks under every environment variable and config file.
InitCredSpec ==
  /\ rev = "current"
  /\ listenIdCheck = TRUE
  /\ occupied = {}
  /\ envApiKey \in {Absent, ""} \cup Keys
  /\ InitServer /\ InitFlow /\ InitWrite /\ InitCred /\ InitProj
  /\ dirExists = TRUE
  /\ gfile \in InitFiles \cup {Doc("", Absent), Doc("K1", Absent)}
  /\ gmode = IF gfile = NoFile THEN "none" ELSE OwnerOnly
  /\ tmpfile = NoFile
  /\ tmpmode = "none"

NextCred ==
  \/ ValidateApiKey
  \/ FetchManagementApi
  \/ ReviewTool

SpecCred == InitCredSpec /\ [][NextCred]_vars

InitZip ==
  /\ zpc = "idle"
  /\ zopen = "none"
  /\ zfile = "absent"
  /\ zfiles = {}
  /\ zentries = {}
  /\ zerr = ""
  /\ zdestroyed = FALSE
  /\ zcreated = FALSE
  /\ zuploaded = "none"
  /\ zcleanups = 0
  /\ zrmFailed = FALSE
  /\ zcleanupEarly = FALSE
  /\ zresult = "none"

\* The project config file: what a project directory can hold, the names setup is
\* called with and the partial documents written.
AppNames ==
  { <<>>, Rep("a", 2), Rep("a", 3), Rep("a", 20), Rep("a", 21),
    <<"m", "y", "-", "a", "p", "p">>, <<"A", "b", "b">>, <<"a", "_", "b">> }
InitLocalFiles ==
  {LAbsent, LInvalid} \cup
  { LDoc(a, o, st, e) :
      a \in {NoName, Name(<<>>), Name(<<"m", "y", "-", "a", "p", "p">>)},
      o \in {NoStr, Str(""), Str("acme")},
      st \in {NoStr, Str("S1")},
      e \in {NoStr, Str("E1")} }
WriteData ==
  { LEmpty,
    LDoc(NoName, Str("org2"), NoStr, NoStr),
    LDoc(Name(<<"a", "p", "p", "7">>), NoStr, Str("S2"), NoStr),
    LDoc(NoName, NoStr, NoStr, Str("E2")) }

InitLocalSpec ==
  /\ rev = "current"
  /\ listenIdCheck = TRUE
  /\ occupied = {}
  /\ envApiKey = Absent
  /\ InitServer /\ InitFlow /\ InitWrite /\ InitCred
  /\ dirExists = TRUE
  /\ gfile = NoFile
  /\ gmode = "none"
  /\ tmpfile = NoFile
  /\ tmpmode = "none"
  /\ lrev \in {"sdk", "local-config"}
  /\ lfile \in InitLocalFiles
  /\ lhist = <<>>
  /\ zmode = "createTempZip"
  /\ ztree = {}
  /\ zinject = <<>>
  /\ InitZip
  /\ InitRead
  /\ InitRace

NextLocal ==
  \/ \E name \in AppNames, out \in WriteOutcomes : Setup(name, out)
  \/ ResolveAppName
  \/ \E hasPath \in BOOLEAN, out \in WriteOutcomes, accountOk \in BOOLEAN :
       ResolveAccountData(hasPath, out, accountOk)
  \/ \E data \in WriteData, out \in WriteOutcomes : WriteLocalConfig(data, out)

SpecLocal == InitLocalSpec /\ [][NextLocal]_vars

\* The archive: source trees drawn from a set of candidate files, with or without
\* an injected file, built by createTempZip alone or inside deployApp.
File(p) == [path |-> p, type |-> "file"]
Link(p) == [path |-> p, type |-> "link"]
TreeCandidates ==
  { File(<< <<"src">>, <<"index.js">> >>),
    File(<< NODE_MODULES, <<"foo.js">> >>),
    File(<< <<"src">>, NODE_MODULES, <<"x.js">> >>),
    File(<< DOT_ENV >>),
    File(<< <<"src">>, <<".env", ".local">> >>),
    File(<< <<".env", "dir">>, <<"a.js">> >>),
    File(<< <<"x", ".env">> >>),
    File(<< <<"node_modules", "2">>, <<"y.js">> >>),
    Link(<< <<"lnk">> >>) }
Injections == { <<>>, <<DOT_ENV>>, <<DOT_ENV, <<"extra.txt">>>> }
ZipModes == {"createTempZip", "deploy-part_008", "deploy-sdk"}

InitZipSpec ==
  /\ rev = "current"
  /\ listenIdCheck = TRUE
  /\ occupied = {}
  /\ envApiKey = Absent
  /\ InitServer /\ InitFlow /\ InitWrite /\ InitCred
  /\ dirExists = TRUE
  /\ gfile = NoFile
  /\ gmode = "none"
  /\ tmpfile = NoFile
  /\ tmpmode = "none"
  /\ lrev = "local-config"
  /\ lfile = LAbsent
  /\ lhist = <<>>
  /\ zmode \in ZipModes
  /\ ztree \in SUBSET TreeCandidates
  /\ zinject \in Injections
  /\ InitZip
  /\ InitRead
  /\ InitRace

NextZip ==
  \/ ZipStart
  \/ \E ok \in BOOLEAN : OpenCompletes(ok)
  \/ \E ok \in BOOLEAN : Enumerate(ok)
  \/ \E ok \in BOOLEAN : AddFiles(ok)
  \/ \E ok \in BOOLEAN : AddInjections(ok)
  \/ \E ok \in BOOLEAN : Finalize(ok)
  \/ ReadStreamFails
  \/ \E ok \in BOOLEAN : ZipCatch(ok)
  \/ \E ok \in BOOLEAN : TempZipCatch(ok)
  \/ \E ok \in BOOLEAN : Cleanup(ok)
  \/ DeployGotZip
  \/ \E ok \in BOOLEAN : Upload(ok)
  \/ \E ok \in BOOLEAN : DeployRequest(ok)
  \/ \E ok \in BOOLEAN : DeployFinally(ok)
  \/ \E ok \in BOOLEAN : DeployUnlink(ok)

SpecZip == InitZipSpec /\ [][NextZip]_vars

\* One call of a reader, for every reader, file content, I/O failure and runtime.
IoFailures == {"none", "EACCES", "EISDIR", "EMFILE"}
InitReadSpec ==
  /\ rev = "current"
  /\ listenIdCheck = TRUE
  /\ occupied = {}
  /\ envApiKey = Absent
  /\ InitServer /\ InitFlow /\ InitWrite /\ InitCred
  /\ dirExists = TRUE
  /\ gfile = NoFile
  /\ gmode = "none"
  /\ tmpfile = NoFile
  /\ tmpmode = "none"
  /\ lrev = "local-config"
  /\ lfile = LAbsent
  /\ lhist = <<>>
  /\ zmode = "createTempZip"
  /\ ztree = {}
  /\ zinject = <<>>
  /\ InitZip
  /\ rin \in [fn : Readers, content : Contents, io : IoFailures,
               pathHasENOENT : BOOLEAN, quotesText : BOOLEAN]
  /\ rin.content = "absent" => rin.io = "none"
  /\ rresult = NotRead
  /\ InitRace

NextRead == ReadConfig

SpecRead == InitReadSpec /\ [][NextRead]_vars

\* A login that saves its credential while another process runs ensureGlobalConfig.
InitRaceSpec ==
  /\ rev = "current"
  /\ listenIdCheck = TRUE
  /\ occupied = {}
  /\ envApiKey = Absent
  /\ InitServer /\ InitFlow /\ InitWrite /\ InitCred
  /\ dirExists = TRUE
  /\ gfile \in InitFiles
  /\ gmode = IF gfile = NoFile THEN "none" ELSE OwnerOnly
  /\ tmpfile = NoFile
  /\ tmpmode = "none"
  /\ lrev = "local-config"
  /\ lfile = LAbsent
  /\ lhist = <<>>
  /\ zmode = "createTempZip"
  /\ ztree = {}
  /\ zinject = <<>>
  /\ InitZip
  /\ InitRead
  /\ InitRace

NextRace ==
  \/ \E k \in Keys : ConcurrentSave(k)
  \/ ConcurrentEnsure
  \/ \E p \in Procs : ProcRead(p)
  \/ \E p \in Procs, ok \in BOOLEAN : ProcWriteTemp(p, ok)
  \/ \E p \in Procs : ProcRename(p)

SpecRace == InitRaceSpec /\ [][NextRace]_vars

\* ================================================================= claims
FlowDone == flowpc = "done"
ServerStarted == startPromise.state = "resolved"
Listening == handle # 0
SessionKey == firstSettle.val.detail
SavedOk == wcaller = "auth" /\ wresult = NoVal
CallbackWithKeyWonRace == ServerStarted /\ firstSettle.state = "resolved"

\* C1: whenever the callback server started listening and the flow has returned or
\* thrown, server.close() has been called exactly once by then and the server is no
\* longer listening; it is not called before the flow ends.
C1_ServerClosedExactlyOnce ==
  ServerStarted =>
    /\ FlowDone => (flowCloses = 1 /\ ~Listening)
    /\ ~FlowDone => flowCloses = 0

\* The flow ended with a failure while persisting the credential.
C1_Witness ==
  /\ FlowDone /\ ServerStarted
  /\ flowResult = Thrown(Err(ErrWrite, ""))
  /\ flowCloses = 1

C3_TimeoutRejectsAndCloses ==
  (ServerStarted /\ firstSettle = [state |-> "rejected", val |-> Err(ErrTimeout, "")]) =>
    /\ flowResult.kind # "returned"
    /\ FlowDone =>
         /\ flowResult = Thrown(Err(ErrTimeout, ""))
         /\ ~Listening
         /\ pendingListens = <<>>

\* The flow timed out after the server had to try more than one port.
C3_Witness ==
  /\ FlowDone /\ ServerStarted
  /\ flowResult = Thrown(Err(ErrTimeout, ""))
  /\ Len(attempts) > 1
  /\ ~Listening

\* C4: the session settles once.  The result of the flow is the outcome of the first
\* of {callback accepted, callback rejected, timeout}: a later callback or a later
\* timer expiry changes neither the value returned, the error thrown nor the
\* credential written.  (Besides that outcome the flow can only fail in open() or in
\* saveGlobalApiKey.)
C4_SettlesAtMostOnce ==
  (ServerStarted /\ SessionSettled /\ FlowDone) =>
    /\ flowResult.kind = "returned" =>
         /\ firstSettle.state = "resolved"
         /\ flowResult = Returned(SessionKey)
    /\ flowResult.kind = "thrown" =>
         \/ flowResult.val = firstSettle.val /\ firstSettle.state = "rejected"
         \/ flowResult.val.kind \in {ErrWrite, ErrInvalidJSON} /\ firstSettle.state = "resolved"
         \/ flowResult.val.kind = ErrOpen /\ rev = "earlier"
    /\ (wcaller = "auth" /\ nwrites > 0) =>
         /\ firstSettle.state = "resolved"
         /\ gfile.apiKey = SessionKey

\* A callback or the timer came after the session was settled, and the flow has ended.
C4_Witness ==
  /\ ServerStarted /\ FlowDone
  /\ lateEvents > 0
  /\ flowResult.kind = "returned"
  /\ lastReq.path = CallbackPath /\ ~lastReq.pending
  /\ lastReq.apiKey \in Keys \ {SessionKey}

HandledWhilePending == lastReq.path = CallbackPath /\ lastReq.pending

\* C5 as stated: an error parameter that is present decides the request, whatever
\* its value.
C5_Original ==
  HandledWhilePending =>
    IF lastReq.error # Absent
    THEN resp = 400 /\ tokenPromise = [state |-> "rejected", val |-> Err(ErrAuth, lastReq.error)]
    ELSE IF Falsy(lastReq.apiKey)
    THEN resp = 400 /\ tokenPromise = [state |-> "rejected", val |-> Err(ErrNoKey, "")]
    ELSE resp = 200 /\ tokenPromise = [state |-> "resolved", val |-> KeyVal(lastReq.apiKey)]

\* C5 amended: an error parameter that is present and not empty gives 400 and rejects
\* the session with that string (also when api_key is present); otherwise an absent
\* or empty api_key gives 400 and the missing-credential error; otherwise 200 and
\* the session resolves with the api_key value.
C5_CallbackOutcome ==
  HandledWhilePending =>
    IF ~Falsy(lastReq.error)
    THEN resp = 400 /\ tokenPromise = [state |-> "rejected", val |-> Err(ErrAuth, lastReq.error)]
    ELSE IF Falsy(lastReq.apiKey)
    THEN resp = 400 /\ tokenPromise = [state |-> "rejected", val |-> Err(ErrNoKey, "")]
    ELSE resp = 200 /\ tokenPromise = [state |-> "resolved", val |-> KeyVal(lastReq.apiKey)]

\* A callback with both an error and an api_key was rejected with the error.
C5_Witness ==
  /\ HandledWhilePending
  /\ lastReq.error \in ErrorStrings /\ lastReq.apiKey \in Keys
  /\ resp = 400
  /\ tokenPromise.state = "rejected"

\* C6: with ports 8000..8010 all in use, startCallbackServer ends rejected with the
\* no-available-ports error, the flow throws that error, and open() is never called.
C6_PortExhaustion ==
  occupied = Ports =>
    /\ ~opened
    /\ startPromise.state # "resolved"
    /\ (flowpc # "idle" /\ pendingListens = <<>>) =>
         startPromise = [state |-> "rejected", port |-> 0, err |-> ErrNoPorts]
    /\ FlowDone => flowResult = Thrown(Err(ErrNoPorts, ""))

C6_Witness ==
  /\ occupied = Ports
  /\ FlowDone
  /\ flowResult = Thrown(Err(ErrNoPorts, ""))
  /\ ~opened

\* C7 as stated: the binds go 8000, 8001, 8002, ... one port further per
\* address-in-use failure, each port once, never two listen() calls under way, at
\* most 11 attempts.
C7_SequentialProbe ==
  /\ \A i \in 1..Len(binds) : binds[i] = BasePort + i - 1
  /\ Len(pendingListens) <= 1
  /\ Len(binds) <= LastPort - BasePort + 1

NoApiKeyErrors == {ErrMissingApiKey, ErrApiKeyNotFound}

\* C8 as stated: validateApiKey, fetchManagementApi and the check at the start of
\* reviewTool all use API_KEY from the environment when it is set and the persisted
\* apiKey otherwise; they fail only when there is neither, with the no-API-key error
\* and before any request is sent.
C8_CredentialResolution ==
  credOp # "none" =>
    LET key == IF ~Falsy(envApiKey) THEN envApiKey ELSE getGlobalApiKey(gfile) IN
    IF Falsy(key)
    THEN credResult.status \in NoApiKeyErrors /\ netCalls = credResult.netBefore
    ELSE credResult.status = "ok" /\ credResult.key = key

\* C9: from the moment writeGlobalConfig has read the existing file until it returns
\* or throws, the config path holds the prior content or the merged document, never
\* a partial one; the call fails with the failed-to-write error exactly when mkdir,
\* the temp-file write or the rename failed, and a failed chmod alone does not make
\* it fail.
C9_AtomicReplace ==
  wpc \notin {"idle", "read"} =>
    /\ gfile \in {wprior, wmerged}
    /\ gfile.kind = "partial" => wprior.kind = "partial"
    /\ wpc = "finished" =>
         /\ wresult = NoVal => (gfile = wmerged /\ wstep = "none")
         /\ wstep \in {"mkdir", "open", "write", "rename"} =>
              (wresult = Err(ErrWrite, "") /\ gfile = wprior)
         /\ wstep = "none" => wresult = NoVal

\* A write that failed half-way left a partial temp file and the config file as it was.
C9_Witness ==
  /\ wpc = "finished"
  /\ wstep = "write"
  /\ tmpfile = PartialFile
  /\ gfile = wprior /\ gfile.kind = "doc"
  /\ wresult = Err(ErrWrite, "")

\* C10 as stated: after a successful writeGlobalConfig the file has mode 0600, and
\* so after a second one.
C10_Original == nwrites > 0 => gmode = OwnerOnly

\* C10 amended: after a successful writeGlobalConfig whose chmodSync succeeded the
\* file has mode 0600, also when it is the second write; a call whose chmodSync
\* failed succeeds all the same and leaves the file with the temp file's mode.
C10_OwnerOnlyWhenChmodWorked ==
  /\ (nwrites > 0 /\ gchmodOk) => gmode = OwnerOnly
  /\ nwrites > 0 => gmode \in {OwnerOnly, DefaultMode}

\* Two successful writes, the second over a file of mode 0600.
C10_Witness ==
  /\ nwrites = 2
  /\ gchmodOk
  /\ gmode = OwnerOnly
  /\ wpc = "finished" /\ wresult = NoVal

HasDeviceID(f) == f.kind = "doc" /\ ~Falsy(f.deviceID)

Calls(op) == {i \in 1..Len(lhist) : lhist[i].op = op}
RecordsApp(f) == f.kind = "doc" /\ ~FalsyName(f.app)
LowerDigitDash == {"a", "b", "m", "p", "y", "0", "7", "-"}
MatchesAppNamePattern(n) ==
  Len(n) \in 3..20 /\ \A i \in 1..Len(n) : n[i] \in LowerDigitDash

C13_Original ==
  \A i \in Calls("setup") :
    LET c == lhist[i] IN
    ~MatchesAppNamePattern(c.name) =>
      (c.err = ErrInvalidAppName /\ c.after = c.before)

\* C13 amended: a non-empty name that does not match the pattern makes setup throw
\* the invalid-app-name error, the empty name makes it throw the appName-is-required
\* error, and in both cases the project config file is neither created nor changed.
C13_InvalidNameWritesNothing ==
  \A i \in Calls("setup") :
    LET c == lhist[i] IN
    ~MatchesAppNamePattern(c.name) =>
      /\ c.err = IF Len(c.name) = 0 THEN ErrNameRequired ELSE ErrInvalidAppName
      /\ c.after = c.before

\* setup with a name of 21 characters in a directory without a config file.
C13_Witness ==
  /\ Len(lhist) >= 1
  /\ lhist[1].op = "setup" /\ lhist[1].name = Rep("a", 21)
  /\ lhist[1].before = LAbsent /\ lhist[1].after = LAbsent
  /\ lhist[1].err = ErrInvalidAppName

\* C14 as stated: resolveAppName throws the setup-required error when there is no
\* config file, the app-name-missing error when the file has no app, and returns
\* the recorded name otherwise.
C14_ResolveAppName ==
  \A i \in Calls("resolveAppName") :
    LET c == lhist[i] IN
    /\ c.before.kind = "absent" => c.err = ErrSetupRequired
    /\ (c.before.kind = "doc" /\ ~RecordsApp(c.before)) => c.err = ErrAppNameMissing
    /\ RecordsApp(c.before) => c.err = ""

\* What a read after a successful write must give for key k.
ExpectedValue(c, k) ==
  IF c.data[k].set THEN c.data[k]
  ELSE IF c.before.kind = "doc" /\ c.before[k].set THEN c.before[k]
  ELSE IF k = "org" THEN Str("personal")
  ELSE IF k = "settings" THEN Str("{}")
  ELSE c.before[k]

\* C15: after a writeLocalConfig(X) that returned, the file read back has for every
\* key the value of X if X has the key, else the prior file's value, else the default
\* (org personal, settings {}); a second write of the same X leaves the file as the
\* first left it.
C15_MergeAndIdempotence ==
  \A i \in Calls("writeLocalConfig") :
    LET c == lhist[i] IN
    c.err = "" =>
      /\ readLocalConfig(c.after).found
      /\ \A k \in LocalKeys : readLocalConfig(c.after).doc[k] = ExpectedValue(c, k)
      /\ (i > 1 /\ lhist[i - 1].op = c.op /\ lhist[i - 1].err = ""
            /\ lhist[i - 1].data = c.data) => c.after = lhist[i - 1].after

\* The same partial document written twice over a file with its own org and an
\* extra key.
C15_Witness ==
  /\ Len(lhist) = 2
  /\ lhist[1].op = "writeLocalConfig" /\ lhist[2].op = "writeLocalConfig"
  /\ lhist[1].err = "" /\ lhist[2].err = ""
  /\ lhist[1].data = LDoc(NoName, Str("org2"), NoStr, NoStr)
  /\ lhist[2].data = lhist[1].data
  /\ lhist[1].before.org = Str("acme") /\ lhist[1].before.extra = Str("E1")
  /\ lfile = LDoc(lhist[1].before.app, Str("org2"), Str("{}"), Str("E1"))

\* C16 as stated: an operation that only needs org or app context never creates a
\* project config file in a directory that has none.
C16_OnlySetupCreates ==
  \A i \in 1..Len(lhist) :
    LET c == lhist[i] IN
    (c.op \in {"resolveAppName", "resolveAccountData", "resolveAccountData-nopath"}
       /\ c.before.kind = "absent") => c.after.kind = "absent"

\* The files the archive is to hold: regular files of the tree (the archive file
\* included when it lies in the tree) with no path component named node_modules or
\* starting with .env, other than the archive itself.
TreeWithArchive == IF OutPath = NoPath THEN ztree ELSE ztree \cup {File(OutPath)}
Reserved(name) == name = <<"node_modules">> \/ name[1] = ".env"
ExpectedEntries ==
  { q.path : q \in { r \in TreeWithArchive :
                       /\ r.type = "file"
                       /\ \A i \in 1..Len(r.path) : ~Reserved(r.path[i])
                       /\ r.path # OutPath } }
  \cup { <<zinject[i]>> : i \in 1..Len(zinject) }

\* C17: the archive zipDirectory completed holds exactly the regular files of the
\* source tree none of whose path components is node_modules or starts with .env,
\* without the archive itself, plus one entry per additional file under its
\* destination name (so an injected .env is there while the tree's .env* are not).
C17_ArchiveEntries == zcreated => zentries = ExpectedEntries

\* The tree of node_modules/foo.js, .env and src/index.js with an injected .env,
\* archived into the source directory itself.
C17_Witness ==
  /\ zcreated
  /\ zmode = "deploy-sdk"
  /\ ztree = { File(<< <<"src">>, <<"index.js">> >>), File(<< NODE_MODULES, <<"foo.js">> >>),
               File(<< DOT_ENV >>) }
  /\ zinject = <<DOT_ENV>>
  /\ zentries = { << <<"src">>, <<"index.js">> >>, << DOT_ENV >> }

\* C18 as stated: when createTempZip throws, no archive file exists at the temporary
\* path from then on.
C18_NoLeakOnFailure ==
  (ViaCreateTempZip /\ zresult = "thrown" /\ ~zcreated) => zfile = "absent"

\* C19 as stated: when deployApp returns or throws after the archive was created,
\* cleanup was invoked, not before the upload attempt finished, and the archive
\* file no longer exists.
C19_DeployCleansUp ==
  (zmode \in {"deploy-part_008", "deploy-sdk"} /\ zcreated /\ zpc = "done") =>
    /\ zcleanups >= 1
    /\ ~zcleanupEarly
    /\ zfile = "absent"

\* C20 as stated: once cleanup has been called the archive file does not exist.
C20_Original ==
  (zmode = "createTempZip" /\ zcleanups >= 1) => zfile = "absent"

\* C20 amended: once cleanup has been called the archive file does not exist unless
\* its removal failed; no call of cleanup throws, whether it is the first or a later
\* one, the file is already missing, or the removal fails.
C20_CleanupRemovesUnlessRmFails ==
  (zmode = "createTempZip" /\ zcleanups >= 1) =>
    /\ ~zrmFailed => zfile = "absent"
    /\ zfile \in {"absent", "complete"}
    /\ zresult = "none" /\ zpc = "created"

\* cleanup was called twice, the second time with the file already removed.
C20_Witness ==
  /\ zmode = "createTempZip"
  /\ zcleanups = 2
  /\ zfile = "absent"
  /\ zcreated /\ zresult = "none"

\* C21 as stated: a reader returns null exactly when the file is absent, throws the
\* invalid-JSON error whenever the file is there and is not valid JSON, and lets
\* every other I/O failure through unchanged.
C21_ReadContract ==
  rresult # NotRead =>
    /\ (rresult.kind = "null") <=> (rin.content = "absent")
    /\ (rin.content \in {"garbage", "garbage-ENOENT"} /\ rin.io = "none") =>
         rresult.kind = "invalid-json"
    /\ (rin.content # "absent" /\ rin.io # "none") =>
         (rresult.kind = "thrown" /\ rresult.err.code = rin.io)

\* C22 as stated: when open() fails the flow does not fail on that account; it goes
\* on waiting for the callback or the timeout and, when a well-formed callback is
\* the first to settle the session and the credential is saved, returns it.
C22_OpenFailureNotFatal ==
  (ServerStarted /\ openState = "failed") =>
    /\ ~SessionSettled => ~FlowDone
    /\ FlowDone =>
         /\ flowResult.val.kind # ErrOpen
         /\ (firstSettle.state = "resolved" /\ SavedOk) => flowResult = Returned(SessionKey)

KeyInFile(p) ==
  IF p = "auth" THEN gfile.kind = "doc" /\ gfile.apiKey = cw[p].data.apiKey
  ELSE gfile.kind = "doc" /\ gfile.deviceID = cw[p].data.deviceID
Other(p) == CHOOSE q \in Procs : q # p

C25_ReportedPortIsBound ==
  ServerStarted =>
    /\ handle = startPromise.port
    /\ opened => urlPort = handle

\* C26 as stated: once startCallbackServer has rejected, the server has no socket and
\* no listen() call is left that could give it one.
C26_RejectedNeverListens ==
  startPromise.state = "rejected" => (handle = 0 /\ pendingListens = <<>>)

FailedAuthErrors == {ErrAuth, ErrNoKey, ErrTimeout}

\* C27: the global config file changes only in the rename of the save a session
\* resolved with a credential makes; a flow that throws the provider's error, the
\* missing-credential error or the timeout error has a rejected session, has not
\* called writeGlobalConfig and has left no temp file, so the file is as it was
\* before the call.
C27_FailedAuthWritesNothing ==
  [][ /\ (gfile' # gfile \/ gmode' # gmode) =>
           (wcaller = "auth" /\ wpc = "rename" /\ firstSettle.state = "resolved")
      /\ (flowResult'.kind = "thrown" /\ flowResult'.val.kind \in FailedAuthErrors) =>
           /\ firstSettle'.state = "rejected"
           /\ wcaller' = "none" /\ nwrites' = 0
           /\ tmpfile' = NoFile ]_vars

\* The provider reported access_denied, the flow threw it, and a callback with a key
\* that came afterwards over the open connection changed nothing in the file.
C27_Witness ==
  /\ FlowDone
  /\ flowResult = Thrown(Err(ErrAuth, "access_denied"))
  /\ lateEvents > 0 /\ lastReq.path = CallbackPath /\ lastReq.apiKey = "K1"
  /\ Falsy(lastReq.error)
  /\ gfile = Doc("K2", "D4") /\ nwrites = 0

\* The session was settled by a callback before Promise.race was called, when no
\* reaction was attached to tokenPromise and the timer was not yet set.
SettledBeforeRace == ServerStarted /\ SessionSettled /\ timer = "unset"

\* C28 as stated: a callback handled after the server started listening and before
\* the flow waits on the race is not lost.  No rejection is left on tokenPromise
\* while nothing handles it, and the flow ends with that callback's outcome: it
\* returns the credential (or throws the error of saving it) or throws the
\* callback's error.
C28_EarlyCallbackKept ==
  SettledBeforeRace =>
    /\ tokenPromise.state # "rejected"
    /\ FlowDone =>
         IF firstSettle.state = "resolved"
         THEN \/ flowResult = Returned(SessionKey)
              \/ flowResult.val.kind \in {ErrWrite, ErrInvalidJSON}
         ELSE flowResult = Thrown(firstSettle.val)

\* C29 as stated: setup called with the app name the project config file records
\* succeeds (short of a failing write) and every other key the file had keeps its
\* value.
C29_RepeatedSetupKeepsOtherKeys ==
  \A i \in Calls("setup") :
    LET c == lhist[i] IN
    (RecordsApp(c.before) /\ c.before.app.val = c.name /\ MatchesAppNamePattern(c.name)) =>
      /\ c.err \in {"", ErrLocalWrite}
      /\ c.err = "" =>
           /\ c.after.kind = "doc" /\ c.after.app = c.before.app
           /\ \A k \in LocalKeys \ {"app"} : c.before[k].set => c.after[k] = c.before[k]

\* The file-system steps of writeGlobalConfig that can fail.
WriteStepsThatFail == {"mkdir", "open", "write", "rename"}

====